---- MODULE Spec2Model ----
(***************************************************************************)
(* A model of the Loom component of pando.js (src/components/loom.ts): the *)
(* working directory, the index, the branch registry, the snapshot store   *)
(* and the operations stage, snapshot, checkout and merge.                 *)
(*                                                                         *)
(* Loom is translated from loom.ts.  Index, Branch, BranchFactory, Node,   *)
(* Snapshot, Tree and the three-way-merge package are imported by loom.ts  *)
(* and are modelled from the specification (sections 4.2 - 4.5).           *)
(*                                                                         *)
(* snapshot, checkout and merge are async: the model takes a call from one *)
(* await to the next as one step, and the steps of the calls in flight,    *)
(* the user's writes and the other calls alternate.  What a call reads     *)
(* after an await (the branches, the heads, the index file, the derived    *)
(* sets of the Index object) it reads in the state of that later step.     *)
(*                                                                         *)
(* A tree is a function from entry names to links (CIDs), as in the IPLD   *)
(* form loom.ts iterates over; the kind of a linked object is read back    *)
(* from the store (NodeGetType), as loom.ts does with get(cid, '@type').   *)
(***************************************************************************)
EXTENDS Integers, Sequences, FiniteSets, TLC

\* ------------------------------------------------------------------ bounds
\* Number of snapshots the store may hold.
MaxSnapshots == 2
\* Number of writes the user makes to the working directory.
MaxWrites == 3
\* Number of calls made on the loom.
MaxCalls == 6
\* Number of calls of snapshot, checkout and merge made while another call is
\* in flight.
MaxOverlaps == 1

\* ------------------------------------------------------------- vocabulary
\* The empty-head sentinel: loom.ts compares heads with the string 'undefined'.
Undefined == 0
\* The empty value of an index field.
Null == 0

\* File paths of the working directory (root-level names).
Paths == {"a", "b"}
\* Entry names in the order a tree's entries are iterated (canonical order).
EntryOrder == <<"a", "b", "q">>
\* Branch names a caller may pass.
BranchNames == {"master", "b"}

\* CIDs of file contents.
Contents == {1, 2}
\* CIDs of directory objects: DirCid(c) is a tree whose only child "q" is the
\* file with content c.  Directory objects occur only as inputs of mergeTrees.
DirCid(c) == 10 + c
DirCids == {DirCid(c) : c \in Contents}
\* CID of the directory object without children, which tree() makes for a
\* staged path that has no entry in the index (line 302).
EmptyDir == 10

EmptyTree == [n \in {} |-> Null]

\* The slots of the calls in flight: calls made on the Loom object before an
\* earlier one has returned.
Procs == {1, 2}

VARIABLES
  wd,         \* working directory: path -> content, Null when the file is absent
  index,      \* .pando/index as Index.update() reads it: path -> [wdir, stage, repo]
  indexed,    \* the paths that have an entry in .pando/index
  sets,       \* the derived sets the Index object holds: those of the last update
  branches,   \* .pando/branches: existing branch name -> head
  current,    \* .pando/current
  snapshots,  \* the snapshot objects of the store; a snapshot's CID is its position
  pO, pD, pL, \* mergeTrees inputs of the tree-merge specification
  pOut,       \* mergeTrees result of the tree-merge specification
  pc,         \* slot -> the lines the call in that slot runs next
  loc,        \* slot -> the local variables of its call
  edits,      \* the writes of the user so far
  calls,      \* the calls made so far
  overlaps    \* the calls so far that began while another was in flight

vars == <<wd, index, indexed, sets, branches, current, snapshots, pO, pD, pL,
          pOut, pc, loc, edits, calls, overlaps>>
loomVars == <<wd, index, indexed, sets, branches, current, snapshots>>
probeVars == <<pO, pD, pL, pOut>>
stepVars == <<pc, loc>>
countVars == <<edits, calls, overlaps>>

\* ---------------------------------------------------------- object store
\* node.get(cid): the snapshot stored under cid.  The empty head reads as a
\* parentless snapshot of the empty tree (loom.ts line 193).
NodeGet(snaps, cid) ==
  IF cid = Undefined THEN [tree |-> EmptyTree, parents |-> <<>>] ELSE snaps[cid]

\* node.get(cid, 'tree')
NodeGetTree(snaps, cid) == NodeGet(snaps, cid).tree

\* node.get(cid, '@type') of a tree entry's link
NodeGetType(cid) == IF cid \in DirCids \cup {EmptyDir} THEN "tree" ELSE "file"

\* node.get(cid) of a tree entry's link, read as a tree: a directory object
\* yields its children; a file object has no entry names.
NodeGetEntry(cid) ==
  IF cid \in DirCids THEN [n \in {"q"} |-> cid - 10] ELSE EmptyTree

\* three-way-merge of whole-file contents: the two sides conflict when both
\* changed the base and changed it differently.
merge3(left, base, right) ==
  [conflict |-> left # base /\ right # base /\ left # right,
   result   |-> IF left = base THEN right ELSE left]

\* ------------------------------------------------------------------ index
NullEntry == [wdir |-> Null, stage |-> Null, repo |-> Null]

\* Index.update(): rescan the working directory, keep stage and repo.
IndexUpdate(idx, w) == [p \in Paths |-> [idx[p] EXCEPT !.wdir = w[p]]]

\* Index.update(): the paths of the mapping.  The files found by the rescan
\* get an entry; the entries there are stay.
IndexUpdatePaths(entered, w) == entered \cup {p \in Paths : w[p] # Null}

\* Index.staged / Index.unsnapshot
IndexStaged(idx) == {p \in Paths : idx[p].stage # Null /\ idx[p].stage # idx[p].repo}
IndexUnsnapshot(idx) == IndexStaged(idx)

\* Index.modified
IndexModified(idx) ==
  {p \in Paths : idx[p].wdir # idx[p].stage
                 \/ (idx[p].stage = Null /\ idx[p].wdir # idx[p].repo)}

\* The derived sets of an index, as Index.update() recomputes them.
IndexSets(idx) ==
  [staged |-> IndexStaged(idx), unsnapshot |-> IndexUnsnapshot(idx),
   modified |-> IndexModified(idx)]

\* The derived sets of an Index object that has made no update.
NoSets == [staged |-> {}, unsnapshot |-> {}, modified |-> {}]

\* Index.stage(paths)
IndexStage(idx, w, paths) ==
  [p \in Paths |-> IF p \in paths
                   THEN [wdir |-> w[p], stage |-> w[p], repo |-> idx[p].repo]
                   ELSE [idx[p] EXCEPT !.wdir = w[p]]]

\* Index.stage(paths): the paths of the mapping.
IndexStagePaths(entered, paths) == entered \cup paths

\* Index.reinitialize(tree): the paths of the mapping, one per file of the
\* tree.  A directory without children holds no file.
IndexReinitializePaths(tree) ==
  {p \in Paths \cap DOMAIN tree : NodeGetType(tree[p]) = "file"}

\* Index.reinitialize(tree)
IndexReinitialize(tree) ==
  [p \in Paths |-> IF p \in IndexReinitializePaths(tree)
                   THEN [wdir |-> tree[p], stage |-> tree[p], repo |-> tree[p]]
                   ELSE NullEntry]

\* ------------------------------------------------------------------- loom
\* The persistent state of a loom, as one value.
Loom(w, idx, entered, derived, br, cur, snaps, e) ==
  [wd |-> w, index |-> idx, indexed |-> entered, sets |-> derived,
   branches |-> br, current |-> cur, snapshots |-> snaps, err |-> e]

\* Loom.currentBranch, line 39: Branch.load raises when .pando/current names
\* no branch of .pando/branches.
headRaises(st) == st.current \notin DOMAIN st.branches

\* Loom.head; the callers test headRaises(st) where the code reads this.head.
head(st) == IF headRaises(st) THEN Undefined ELSE st.branches[st.current]

\* Loom.tree(): the tree of the staged paths, with the index as lines 290-291
\* read it (idx, its paths entered, the set staged).  A staged path that has an
\* entry becomes a file linking the entry's stage (line 299); one that has no
\* entry becomes a directory without children (line 302).
tree(idx, entered, staged) ==
  [p \in staged |-> IF p \in entered THEN idx[p].stage ELSE EmptyDir]

\* Loom.tree() without line 300: the staged entries are not marked snapshotted.
treeIndexStale(idx, entered, staged) == idx

\* Loom.tree(), lines 300 and 308: the index written back, each staged entry
\* snapshotted (repo := stage).
treeIndex(idx, entered, staged) ==
  [p \in Paths |-> IF p \in staged \cap entered
                   THEN [idx[p] EXCEPT !.repo = idx[p].stage]
                   ELSE idx[p]]

\* Loom.fromIPLD(object) of a snapshot node: "none", or the error raised.
\* parents is the snapshot's array of links (spec 6); the loop of lines 257-259
\* reads object[attribute][child] with child an element of the array, not a
\* position, so a non-empty array raises a TypeError.
fromIPLD(snap) == IF snap.parents # <<>> THEN "TypeError" ELSE "none"

\* Loom.snapshot with line 103 recording no parent.
snapshotOrphan(st) ==
  LET idx == IndexUpdate(st.index, st.wd)
      st1 == [st EXCEPT !.index = idx,
                        !.indexed = IndexUpdatePaths(st.indexed, st.wd),
                        !.sets = IndexSets(idx)]
      staged == IndexStaged(idx)
      st2 == [st1 EXCEPT !.index = treeIndex(idx, st1.indexed, staged)]
      snap == [tree |-> tree(idx, st1.indexed, staged), parents |-> <<>>]
      cid == Len(st.snapshots) + 1
  IN IF IndexUnsnapshot(idx) = {}
     THEN [st1 EXCEPT !.err = "NothingToSnapshot"]
     ELSE IF headRaises(st)
     THEN [st2 EXCEPT !.err = "UnknownBranch"]
     ELSE IF head(st) # Undefined /\ fromIPLD(NodeGet(st.snapshots, head(st))) # "none"
     THEN [st2 EXCEPT !.err = fromIPLD(NodeGet(st.snapshots, head(st)))]
     ELSE [st2 EXCEPT !.snapshots = Append(st.snapshots, snap),
                      !.branches = [st.branches EXCEPT ![st.current] = cid],
                      !.err = "none"]

\* Loom.snapshot(message)
snapshot(st) ==
  LET idx == IndexUpdate(st.index, st.wd)
      st1 == [st EXCEPT !.index = idx,
                        !.indexed = IndexUpdatePaths(st.indexed, st.wd),
                        !.sets = IndexSets(idx)]
      staged == IndexStaged(idx)
      st2 == [st1 EXCEPT !.index = treeIndex(idx, st1.indexed, staged)]
      parents == IF head(st) # Undefined THEN <<head(st)>> ELSE <<>>
      snap == [tree |-> tree(idx, st1.indexed, staged), parents |-> parents]
      cid == Len(st.snapshots) + 1
  IN IF IndexUnsnapshot(idx) = {}
     THEN [st1 EXCEPT !.err = "NothingToSnapshot"]
     ELSE IF headRaises(st)
     THEN [st2 EXCEPT !.err = "UnknownBranch"]
     ELSE IF head(st) # Undefined /\ fromIPLD(NodeGet(st.snapshots, head(st))) # "none"
     THEN [st2 EXCEPT !.err = fromIPLD(NodeGet(st.snapshots, head(st)))]
     ELSE [st2 EXCEPT !.snapshots = Append(st.snapshots, snap),
                      !.branches = [st.branches EXCEPT ![st.current] = cid],
                      !.err = "none"]

\* Loom.updateWorkingDirectory(baseTree, newTree): the working directory after
\* the walk.  download(cid) writes the linked file at its path, rm removes it.
download(w, entry, cid) ==
  IF entry \in Paths /\ cid \in Contents THEN [w EXCEPT ![entry] = cid] ELSE w

updateWorkingDirectory(w, baseTree, newTree) ==
  [p \in Paths |->
     IF p \in DOMAIN newTree
     THEN IF p \notin DOMAIN baseTree
          THEN download(w, p, newTree[p])[p]
          ELSE IF baseTree[p] # newTree[p]
               THEN download(w, p, newTree[p])[p]
               ELSE w[p]
     ELSE IF p \in DOMAIN baseTree THEN Null ELSE w[p]]

\* Loom.checkout without the test of Branch.exists (lines 116-118 left out):
\* the head of a branch that does not exist reads as the empty head.
checkoutUnchecked(st, branchName) ==
  LET idx == IndexUpdate(st.index, st.wd)
      st1 == [st EXCEPT !.index = idx,
                        !.indexed = IndexUpdatePaths(st.indexed, st.wd),
                        !.sets = IndexSets(idx)]
      newHead == IF branchName \in DOMAIN st.branches
                 THEN st.branches[branchName] ELSE Undefined
      baseHead == head(st)
      newTree == NodeGetTree(st.snapshots, newHead)
      baseTree == IF baseHead # Undefined
                  THEN NodeGetTree(st.snapshots, baseHead)
                  ELSE EmptyTree
  IN IF IndexUnsnapshot(idx) # {}
     THEN [st1 EXCEPT !.err = "Unsnapshot"]
     ELSE IF IndexModified(idx) # {}
     THEN [st1 EXCEPT !.err = "Modified"]
     ELSE IF headRaises(st)
     THEN [st1 EXCEPT !.err = "UnknownBranch"]
     ELSE IF newHead # Undefined
     THEN [st1 EXCEPT !.wd = updateWorkingDirectory(st.wd, baseTree, newTree),
                      !.index = IndexReinitialize(newTree),
                      !.indexed = IndexReinitializePaths(newTree),
                      !.current = branchName,
                      !.err = "none"]
     ELSE [st1 EXCEPT !.index = IndexReinitialize(EmptyTree),
                      !.indexed = IndexReinitializePaths(EmptyTree),
                      !.current = branchName,
                      !.err = "none"]

\* Loom.checkout(branchName)
checkout(st, branchName) ==
  LET idx == IndexUpdate(st.index, st.wd)
      st1 == [st EXCEPT !.index = idx,
                        !.indexed = IndexUpdatePaths(st.indexed, st.wd),
                        !.sets = IndexSets(idx)]
      newHead == st.branches[branchName]
      baseHead == head(st)
      newTree == NodeGetTree(st.snapshots, newHead)
      baseTree == IF baseHead # Undefined
                  THEN NodeGetTree(st.snapshots, baseHead)
                  ELSE EmptyTree
  IN IF branchName \notin DOMAIN st.branches
     THEN [st1 EXCEPT !.err = "UnknownBranch"]
     ELSE IF IndexUnsnapshot(idx) # {}
     THEN [st1 EXCEPT !.err = "Unsnapshot"]
     ELSE IF IndexModified(idx) # {}
     THEN [st1 EXCEPT !.err = "Modified"]
     ELSE IF headRaises(st)
     THEN [st1 EXCEPT !.err = "UnknownBranch"]
     ELSE IF newHead # Undefined
     THEN [st1 EXCEPT !.wd = updateWorkingDirectory(st.wd, baseTree, newTree),
                      !.index = IndexReinitialize(newTree),
                      !.indexed = IndexReinitializePaths(newTree),
                      !.current = branchName,
                      !.err = "none"]
     ELSE [st1 EXCEPT !.index = IndexReinitialize(EmptyTree),
                      !.indexed = IndexReinitializePaths(EmptyTree),
                      !.current = branchName,
                      !.err = "none"]

\* Loom.buildSnapshotCIDS(snapshot): [error, cids], the first-parent chain
\* above the snapshot.  The loop of line 316 stops on parents === 'undefined';
\* parents is the stored array of links (length 0 for the initial snapshot),
\* never that string, so the loop goes on at a parentless snapshot: line 317
\* pushes parents[0], which is undefined there, and node.get of line 318 raises.
\* The push of line 322 is reached from no stored snapshot.
RECURSIVE buildSnapshotCIDS(_, _)
buildSnapshotCIDS(snaps, snap) ==
  IF snap.parents = <<>>
  THEN [error |-> "MissingObject", cids |-> <<>>]
  ELSE LET rest == buildSnapshotCIDS(snaps, NodeGet(snaps, snap.parents[1]))
       IN [error |-> rest.error, cids |-> <<snap.parents[1]>> \o rest.cids]

\* Loom.merge, lines 185-191: the first origin entry that indexOf finds among
\* the destination entries.  indexOf compares with ===: the entries pushed at
\* line 317 are link objects, each read from the store by the walk that pushed
\* it, and no object of one walk is an object of the other; the entry pushed
\* at line 322 is the string 'undefined', equal to itself.  So the one entry
\* the loop can find is that string, and lcaCID stays undefined otherwise.
lcaCID(originSnapshotCIDs, destinationSnapshotCIDs) ==
  LET hits == {i \in 1..Len(originSnapshotCIDs) :
                 /\ originSnapshotCIDs[i] = Undefined
                 /\ \E j \in 1..Len(destinationSnapshotCIDs) :
                      destinationSnapshotCIDs[j] = Undefined}
  IN IF hits = {} THEN Undefined
     ELSE originSnapshotCIDs[CHOOSE i \in hits : \A j \in hits : i <= j]

\* Loom.merge, lines 163-191: [error, cid], the base of originHead and
\* destinationHead.
mergeBase(snaps, originHead, destinationHead) ==
  LET originWalk == buildSnapshotCIDS(snaps, NodeGet(snaps, originHead))
      destinationWalk == buildSnapshotCIDS(snaps, NodeGet(snaps, destinationHead))
  IN IF originWalk.error # "none"
     THEN [error |-> originWalk.error, cid |-> Undefined]
     ELSE IF destinationWalk.error # "none"
     THEN [error |-> destinationWalk.error, cid |-> Undefined]
     ELSE [error |-> "none", cid |-> lcaCID(originWalk.cids, destinationWalk.cids)]

\* Loom.mergeTrees, line 345: the locals are declared and never assigned.
mergeTreesLocals ==
  [resultDefined |-> FALSE, treeDefined |-> FALSE,
   mergeTree |-> EmptyTree, mergeFlag |-> "undefined"]

\* mergeTree[entry] = link: a write into an unassigned local raises a TypeError.
setEntry(acc, entry, link) ==
  IF acc.loc.treeDefined
  THEN [acc EXCEPT !.loc.mergeTree =
          [n \in DOMAIN @ \cup {entry} |-> IF n = entry THEN link ELSE @[n]]]
  ELSE [acc EXCEPT !.error = "TypeError"]

\* The entries of a tree in iteration order.
entries(t) == SelectSeq(EntryOrder, LAMBDA n : n \in DOMAIN t)

RECURSIVE mergeTrees(_, _, _)

\* Loom.mergeTrees, lines 348-389: the loop body for one destination entry.
mergeEntry(acc, entry, o, d, l) ==
  IF entry \notin DOMAIN o
  THEN setEntry(acc, entry, d[entry])
  ELSE IF d[entry] # o[entry]
  THEN IF NodeGetType(o[entry]) # NodeGetType(d[entry])
       THEN setEntry(acc, entry, d[entry])
       ELSE IF NodeGetType(o[entry]) = "file"
       THEN IF entry \notin DOMAIN l
            THEN [acc EXCEPT !.error = "NoCommonAncestor"]
            ELSE acc  \* the text merge is computed and logged, nothing is kept
       ELSE IF entry \notin DOMAIN l
            THEN [acc EXCEPT !.error = "TypeError"]
            ELSE LET r == mergeTrees(NodeGetEntry(o[entry]), NodeGetEntry(d[entry]),
                                     NodeGetEntry(l[entry]))
                 IN IF r.error # "none" THEN [acc EXCEPT !.error = r.error]
                    ELSE acc  \* the result of the recursion is dropped
  ELSE acc

RECURSIVE mergeLoop(_, _, _, _, _)
mergeLoop(acc, todo, o, d, l) ==
  IF todo = <<>> \/ acc.error # "none" THEN acc
  ELSE mergeLoop(mergeEntry(acc, todo[1], o, d, l), Tail(todo), o, d, l)

\* Loom.mergeTrees(originTree, destinationTree, lcaTree):
\* [error, flag, tree]; error is "none" when the call returns.
mergeTrees(o, d, l) ==
  LET acc == mergeLoop([loc |-> mergeTreesLocals, error |-> "none"], entries(d), o, d, l)
  IN IF acc.error # "none"
     THEN [error |-> acc.error, flag |-> "undefined", tree |-> EmptyTree]
     ELSE IF ~acc.loc.resultDefined  \* mergeResult[0] = mergeFlag, line 398
     THEN [error |-> "TypeError", flag |-> "undefined", tree |-> EmptyTree]
     ELSE [error |-> "none", flag |-> acc.loc.mergeFlag, tree |-> acc.loc.mergeTree]

\* Loom.merge, lines 196-219: the three trees, their merge, and what a merge
\* without conflict writes.
mergeFinish(st, originHead, destinationHead, lca, destinationBranchName) ==
  LET originTree == NodeGetTree(st.snapshots, originHead)
      destinationTree == NodeGetTree(st.snapshots, destinationHead)
      lcaTree == NodeGetTree(st.snapshots, lca)
      mergeResult == mergeTrees(originTree, destinationTree, lcaTree)
      st2 == [st EXCEPT !.wd = updateWorkingDirectory(st.wd, originTree, mergeResult.tree),
                        !.index = IndexReinitialize(mergeResult.tree),
                        !.indexed = IndexReinitializePaths(mergeResult.tree)]
      st3 == snapshot(st2)
  IN IF mergeResult.error # "none"
     THEN [st EXCEPT !.err = mergeResult.error]
     ELSE IF mergeResult.flag = "conflict"
     THEN [st EXCEPT !.err = "Conflict"]
     ELSE IF st3.err # "none"
     THEN st3
     ELSE [st3 EXCEPT !.current = destinationBranchName]

\* Loom.merge with the switch of line 219 made before the trees are merged.
mergeSwitching(st, destinationBranchName) ==
  LET idx == IndexUpdate(st.index, st.wd)
      st1 == [st EXCEPT !.index = idx,
                        !.indexed = IndexUpdatePaths(st.indexed, st.wd),
                        !.sets = IndexSets(idx)]
      destinationHead == st.branches[destinationBranchName]
      originHead == head(st)
      lca == mergeBase(st.snapshots, originHead, destinationHead)
      originTree == NodeGetTree(st.snapshots, originHead)
      destinationTree == NodeGetTree(st.snapshots, destinationHead)
      lcaTree == NodeGetTree(st.snapshots, lca.cid)
      mergeResult == mergeTrees(originTree, destinationTree, lcaTree)
      st2 == [st1 EXCEPT !.wd = updateWorkingDirectory(st.wd, originTree, mergeResult.tree),
                         !.index = IndexReinitialize(mergeResult.tree),
                         !.indexed = IndexReinitializePaths(mergeResult.tree),
                         !.current = destinationBranchName]
      st3 == snapshot(st2)
  IN IF destinationBranchName \notin DOMAIN st.branches
     THEN [st1 EXCEPT !.err = "UnknownBranch"]
     ELSE IF IndexUnsnapshot(idx) # {}
     THEN [st1 EXCEPT !.err = "Unsnapshot"]
     ELSE IF IndexModified(idx) # {}
     THEN [st1 EXCEPT !.err = "Modified"]
     ELSE IF headRaises(st)
     THEN [st1 EXCEPT !.err = "UnknownBranch"]
     ELSE IF lca.error # "none"
     THEN [st1 EXCEPT !.current = destinationBranchName, !.err = lca.error]
     ELSE IF mergeResult.error # "none"
     THEN [st1 EXCEPT !.current = destinationBranchName, !.err = mergeResult.error]
     ELSE IF mergeResult.flag = "conflict"
     THEN [st1 EXCEPT !.current = destinationBranchName, !.err = "Conflict"]
     ELSE st3

\* Loom.merge without the test of Branch.exists (lines 153-155 left out):
\* the head of a branch that does not exist reads as the empty head.
mergeUnchecked(st, destinationBranchName) ==
  LET idx == IndexUpdate(st.index, st.wd)
      st1 == [st EXCEPT !.index = idx,
                        !.indexed = IndexUpdatePaths(st.indexed, st.wd),
                        !.sets = IndexSets(idx)]
      destinationHead == IF destinationBranchName \in DOMAIN st.branches
                         THEN st.branches[destinationBranchName] ELSE Undefined
      originHead == head(st)
      lca == mergeBase(st.snapshots, originHead, destinationHead)
      originTree == NodeGetTree(st.snapshots, originHead)
      destinationTree == NodeGetTree(st.snapshots, destinationHead)
      lcaTree == NodeGetTree(st.snapshots, lca.cid)
      mergeResult == mergeTrees(originTree, destinationTree, lcaTree)
  IN IF IndexUnsnapshot(idx) # {}
     THEN [st1 EXCEPT !.err = "Unsnapshot"]
     ELSE IF IndexModified(idx) # {}
     THEN [st1 EXCEPT !.err = "Modified"]
     ELSE IF headRaises(st)
     THEN [st1 EXCEPT !.err = "UnknownBranch"]
     ELSE IF lca.error # "none"
     THEN [st1 EXCEPT !.err = lca.error]
     ELSE [st1 EXCEPT !.err = mergeResult.error]

\* Loom.merge(destinationBranchName)
merge(st, destinationBranchName) ==
  LET idx == IndexUpdate(st.index, st.wd)
      st1 == [st EXCEPT !.index = idx,
                        !.indexed = IndexUpdatePaths(st.indexed, st.wd),
                        !.sets = IndexSets(idx)]
      destinationHead == st.branches[destinationBranchName]
      originHead == head(st)
      lca == mergeBase(st.snapshots, originHead, destinationHead)
  IN IF destinationBranchName \notin DOMAIN st.branches
     THEN [st1 EXCEPT !.err = "UnknownBranch"]
     ELSE IF IndexUnsnapshot(idx) # {}
     THEN [st1 EXCEPT !.err = "Unsnapshot"]
     ELSE IF IndexModified(idx) # {}
     THEN [st1 EXCEPT !.err = "Modified"]
     ELSE IF headRaises(st)
     THEN [st1 EXCEPT !.err = "UnknownBranch"]
     ELSE IF lca.error # "none"
     THEN [st1 EXCEPT !.err = lca.error]
     ELSE mergeFinish(st1, originHead, destinationHead, lca.cid, destinationBranchName)

\* BranchFactory.new(name): a new branch, empty or at the current head.
branchNew(st, name, fromHead) ==
  IF name \in DOMAIN st.branches
  THEN [st EXCEPT !.err = "BranchExists"]
  ELSE IF fromHead /\ headRaises(st)
  THEN [st EXCEPT !.err = "UnknownBranch"]
  ELSE [st EXCEPT !.branches =
          [n \in DOMAIN @ \cup {name} |->
             IF n = name THEN (IF fromHead THEN head(st) ELSE Undefined) ELSE @[n]],
        !.err = "none"]

\* The tree-merge probe before mergeTrees has been applied.
NotCalled == [called |-> FALSE, error |-> "none", flag |-> "undefined", tree |-> EmptyTree]

\* The state Loom.new() leaves: an empty index and the empty branch master.
LoomNew ==
  /\ wd = [p \in Paths |-> Null]
  /\ index = [p \in Paths |-> NullEntry]
  /\ indexed = {}
  /\ sets = NoSets
  /\ branches = [n \in {"master"} |-> Undefined]
  /\ current = "master"
  /\ snapshots = <<>>

\* The locals of a call slot that holds no call.
NoLocals ==
  [tree |-> EmptyTree, parents |-> <<>>, cid |-> Undefined,
   branchName |-> "", heads |-> <<>>, baseTree |-> EmptyTree,
   newTree |-> EmptyTree, todo |-> <<>>]

Idle ==
  /\ pc = [p \in Procs |-> "idle"]
  /\ loc = [p \in Procs |-> NoLocals]
  /\ edits = 0
  /\ calls = 0
  /\ overlaps = 0

\* A call is made.
Call == calls < MaxCalls /\ calls' = calls + 1 /\ UNCHANGED edits

\* The call is one that awaits: when another call is in flight it overlaps it.
Overlap ==
  IF \E p \in Procs : pc[p] # "idle"
  THEN overlaps < MaxOverlaps /\ overlaps' = overlaps + 1
  ELSE UNCHANGED overlaps

\* The call takes the lowest slot that holds no call.
Free(p) == pc[p] = "idle" /\ \A q \in Procs : q < p => pc[q] # "idle"

Init ==
  /\ LoomNew
  /\ pO = EmptyTree /\ pD = EmptyTree /\ pL = EmptyTree
  /\ pOut = NotCalled
  /\ Idle

Here == Loom(wd, index, indexed, sets, branches, current, snapshots, "none")

\* The loom becomes st; the outcome st.err goes to the caller.  The variable
\* index holds the index as the next Index.update() reads it: every operation
\* of the loom starts with that call, which recomputes wdir from the working
\* directory before any field is read.
Become(st) ==
  /\ wd' = st.wd
  /\ index' = IndexUpdate(st.index, st.wd)
  /\ indexed' = st.indexed
  /\ sets' = st.sets
  /\ branches' = st.branches
  /\ current' = st.current
  /\ snapshots' = st.snapshots
  /\ UNCHANGED probeVars

\* ------------------------------------------------------- the calls, as steps
\* snapshot, checkout and merge are async functions: a call runs from one
\* await to the next as one step.  No line of loom.ts takes a lock or tests
\* that another call is under way, so the steps of the calls in flight, the
\* user's writes and the calls that take one step alternate freely.  The
\* files under .pando, the store and the Index object of the loom are shared
\* and are read as they are when the line that reads them runs: the lines
\* after await this.index.update() run in a later turn and test the sets the
\* Index object holds then, which are those of the last update any call has
\* made.  pc[p] names the lines the call in slot p runs next.

\* The user edits or deletes a file of the working directory.
UserWrite ==
  \E f \in Paths, c \in Contents \cup {Null} :
    /\ wd[f] # c
    /\ edits < MaxWrites /\ edits' = edits + 1 /\ UNCHANGED <<calls, overlaps>>
    /\ wd' = [wd EXCEPT ![f] = c]
    /\ index' = IndexUpdate(index, wd')
    /\ UNCHANGED <<indexed, sets, branches, current, snapshots>>
    /\ UNCHANGED probeVars
    /\ UNCHANGED stepVars

\* Loom.stage(paths), line 91.
Stage ==
  /\ \E paths \in (SUBSET {f \in Paths : wd[f] # Null}) \ {{}} :
       /\ index' = IndexStage(index, wd, paths)
       /\ indexed' = IndexStagePaths(indexed, paths)
  /\ UNCHANGED <<wd, sets, branches, current, snapshots>>
  /\ UNCHANGED probeVars
  /\ Call
  /\ UNCHANGED overlaps
  /\ UNCHANGED stepVars

\* loom.branch.new(name), the call that makes a branch.
BranchNew ==
  /\ \E B \in BranchNames, fromHead \in BOOLEAN :
       Become(branchNew(Here, B, fromHead))
  /\ Call
  /\ UNCHANGED overlaps
  /\ UNCHANGED stepVars

\* The public setter of lines 34-36, called from outside the class: the name
\* is written to .pando/current as it comes, with none of the tests of
\* checkout; the working directory and the index stay.
SetCurrentBranchName ==
  /\ \E name \in BranchNames : current' = name
  /\ UNCHANGED <<wd, index, indexed, sets, branches, snapshots>>
  /\ UNCHANGED probeVars
  /\ Call
  /\ UNCHANGED overlaps
  /\ UNCHANGED stepVars

\* Index.update() as a call of the loom awaits it: the working directory is
\* rescanned and the derived sets of the Index object are recomputed.
Update ==
  /\ index' = IndexUpdate(index, wd)
  /\ indexed' = IndexUpdatePaths(indexed, wd)
  /\ sets' = IndexSets(index')
  /\ UNCHANGED <<wd, branches, current, snapshots>>

\* Loom.snapshot, line 95: the call is made and updates the index.
SnapshotUpdate(p) ==
  /\ Free(p)
  /\ Call
  /\ Overlap
  /\ Update
  /\ loc' = [loc EXCEPT ![p] = NoLocals]
  /\ pc' = [pc EXCEPT ![p] = "tree"]
  /\ UNCHANGED probeVars

\* Loom.snapshot, lines 97-101, run when the await of line 95 is over: the
\* test of the unsnapshot set and tree(), which is not async.  Both read the
\* sets the Index object holds now; tree() reads and writes the index file.
SnapshotTree(p) ==
  /\ pc[p] = "tree"
  /\ UNCHANGED countVars
  /\ IF sets.unsnapshot = {}
     THEN /\ loc' = [loc EXCEPT ![p] = NoLocals]  \* 'Nothing to snapshot'
          /\ pc' = [pc EXCEPT ![p] = "idle"]
          /\ UNCHANGED index
     ELSE /\ loc' = [loc EXCEPT ![p] =
                       [NoLocals EXCEPT !.tree = tree(index, indexed, sets.staged)]]
          /\ index' = treeIndex(index, indexed, sets.staged)
          /\ pc' = [pc EXCEPT ![p] = "parents"]
  /\ UNCHANGED <<wd, indexed, sets, branches, current, snapshots>>
  /\ UNCHANGED probeVars

\* Loom.snapshot, line 103: read the head and load it as the parent.
SnapshotParents(p) ==
  /\ pc[p] = "parents"
  /\ UNCHANGED countVars
  /\ LET h == head(Here)
         e == IF headRaises(Here) THEN "UnknownBranch"
              ELSE IF h # Undefined THEN fromIPLD(NodeGet(snapshots, h))
              ELSE "none"
     IN IF e # "none"
        THEN /\ loc' = [loc EXCEPT ![p] = NoLocals]  \* e goes to the caller
             /\ pc' = [pc EXCEPT ![p] = "idle"]
        ELSE /\ loc' = [loc EXCEPT ![p].parents =
                           IF h # Undefined THEN <<h>> ELSE <<>>]
             /\ pc' = [pc EXCEPT ![p] = "put"]
  /\ UNCHANGED loomVars
  /\ UNCHANGED probeVars

\* Loom.snapshot, lines 105-106: store the snapshot object.
SnapshotPut(p) ==
  /\ pc[p] = "put"
  /\ UNCHANGED countVars
  /\ Len(snapshots) < MaxSnapshots
  /\ snapshots' = Append(snapshots, [tree |-> loc[p].tree, parents |-> loc[p].parents])
  /\ loc' = [loc EXCEPT ![p] = [NoLocals EXCEPT !.cid = Len(snapshots) + 1]]
  /\ pc' = [pc EXCEPT ![p] = "head"]
  /\ UNCHANGED <<wd, index, indexed, sets, branches, current>>
  /\ UNCHANGED probeVars

\* Loom.snapshot, line 108: the head of the current branch becomes the CID;
\* this.currentBranch raises when no branch has the current name.
SnapshotHead(p) ==
  /\ pc[p] = "head"
  /\ UNCHANGED countVars
  /\ branches' = IF headRaises(Here) THEN branches
                 ELSE [branches EXCEPT ![current] = loc[p].cid]
  /\ loc' = [loc EXCEPT ![p] = NoLocals]
  /\ pc' = [pc EXCEPT ![p] = "idle"]
  /\ UNCHANGED <<wd, index, indexed, sets, current, snapshots>>
  /\ UNCHANGED probeVars

\* Loom.checkout, line 114: the call is made and updates the index.
CheckoutUpdate(p, B) ==
  /\ Free(p)
  /\ Call
  /\ Overlap
  /\ Update
  /\ loc' = [loc EXCEPT ![p] = [NoLocals EXCEPT !.branchName = B]]
  /\ pc' = [pc EXCEPT ![p] = "tests"]
  /\ UNCHANGED probeVars

\* The lines a checkout or a merge runs when the await of its update is over
\* (116-124, 153-161, and this.head of lines 127 and 164): the error raised,
\* or "none".  The branches and the sets are read as they are now.
preflight(st, branchName) ==
  IF branchName \notin DOMAIN st.branches THEN "UnknownBranch"
  ELSE IF st.sets.unsnapshot # {} THEN "Unsnapshot"
  ELSE IF st.sets.modified # {} THEN "Modified"
  ELSE IF headRaises(st) THEN "UnknownBranch"
  ELSE "none"

\* updateWorkingDirectory has no entry of the new tree left to walk and no
\* entry of the base tree left to remove: checkout goes on to line 141.
WalkNext(todo, baseTree) ==
  IF todo = <<>> /\ baseTree = EmptyTree THEN "reinit" ELSE "update"

\* Loom.checkout with the current branch written first (line 146 moved up).
CheckoutBeginEager(p) ==
  /\ pc[p] = "tests"
  /\ UNCHANGED countVars
  /\ LET B == loc[p].branchName
     IN IF preflight(Here, B) # "none"
        THEN /\ loc' = [loc EXCEPT ![p] = NoLocals]
             /\ pc' = [pc EXCEPT ![p] = "idle"]
             /\ UNCHANGED current
        ELSE LET newHead == branches[B]
                 baseHead == head(Here)
                 newTree == NodeGetTree(snapshots, newHead)
                 baseTree == IF baseHead # Undefined
                             THEN NodeGetTree(snapshots, baseHead) ELSE EmptyTree
             IN /\ loc' = [loc EXCEPT ![p].newTree = newTree,
                                      ![p].baseTree = IF newHead # Undefined
                                                      THEN baseTree ELSE EmptyTree,
                                      ![p].todo = entries(newTree)]
                /\ pc' = [pc EXCEPT ![p] =
                            IF newHead # Undefined
                            THEN WalkNext(entries(newTree), baseTree)
                            ELSE "reinit"]
                /\ current' = B
  /\ UNCHANGED <<wd, index, indexed, sets, branches, snapshots>>
  /\ UNCHANGED probeVars

\* Loom.checkout, lines 116-138, run when the await of line 114 is over: the
\* tests, the two heads and their trees.  The trees of lines 132 and 135 are
\* the objects the heads read at lines 126-127 name, and an object of the
\* store never changes.
CheckoutBegin(p) ==
  /\ pc[p] = "tests"
  /\ UNCHANGED countVars
  /\ LET B == loc[p].branchName
     IN IF preflight(Here, B) # "none"
        THEN /\ loc' = [loc EXCEPT ![p] = NoLocals]  \* the error goes to the caller
             /\ pc' = [pc EXCEPT ![p] = "idle"]
        ELSE LET newHead == branches[B]
                 baseHead == head(Here)
                 newTree == NodeGetTree(snapshots, newHead)
                 baseTree == IF baseHead # Undefined
                             THEN NodeGetTree(snapshots, baseHead) ELSE EmptyTree
             IN /\ loc' = [loc EXCEPT ![p].newTree = newTree,
                                      ![p].baseTree = IF newHead # Undefined
                                                      THEN baseTree ELSE EmptyTree,
                                      ![p].todo = entries(newTree)]
                /\ pc' = [pc EXCEPT ![p] =
                            IF newHead # Undefined
                            THEN WalkNext(entries(newTree), baseTree)
                            ELSE "reinit"]
  /\ UNCHANGED loomVars
  /\ UNCHANGED probeVars

\* Loom.updateWorkingDirectory, lines 414-441: one entry of the new tree.
CheckoutEntry(p) ==
  /\ pc[p] = "update"
  /\ UNCHANGED countVars
  /\ loc[p].todo # <<>>
  /\ LET entry == Head(loc[p].todo)
         baseTree == loc[p].baseTree
         newTree == loc[p].newTree
         rest == [n \in DOMAIN baseTree \ {entry} |-> baseTree[n]]
     IN /\ wd' = IF entry \notin DOMAIN baseTree \/ baseTree[entry] # newTree[entry]
                  THEN download(wd, entry, newTree[entry])
                  ELSE wd
        /\ loc' = [loc EXCEPT ![p].todo = Tail(@), ![p].baseTree = rest]
        /\ pc' = [pc EXCEPT ![p] = WalkNext(Tail(loc[p].todo), rest)]
  /\ index' = IndexUpdate(index, wd')
  /\ UNCHANGED <<indexed, sets, branches, current, snapshots>>
  /\ UNCHANGED probeVars

\* Loom.updateWorkingDirectory, lines 443-447: one entry left of the base
\* tree, its path read from the store and removed.
CheckoutRemove(p) ==
  /\ pc[p] = "update"
  /\ UNCHANGED countVars
  /\ loc[p].todo = <<>>
  /\ LET baseTree == loc[p].baseTree
         entry == Head(entries(baseTree))
         rest == [n \in DOMAIN baseTree \ {entry} |-> baseTree[n]]
     IN /\ wd' = [f \in Paths |-> IF f = entry THEN Null ELSE wd[f]]
        /\ loc' = [loc EXCEPT ![p].baseTree = rest]
        /\ pc' = [pc EXCEPT ![p] = WalkNext(<<>>, rest)]
  /\ index' = IndexUpdate(index, wd')
  /\ UNCHANGED <<indexed, sets, branches, current, snapshots>>
  /\ UNCHANGED probeVars

\* A node.get or node.download of lines 417-445 raises inside
\* updateWorkingDirectory.
CheckoutFails(p) ==
  /\ pc[p] = "update"
  /\ UNCHANGED countVars
  /\ pc' = [pc EXCEPT ![p] = "failed"]
  /\ UNCHANGED loc
  /\ UNCHANGED loomVars
  /\ UNCHANGED probeVars

\* The error leaves checkout at line 140: lines 141-146 are not run.
CheckoutRaise(p) ==
  /\ pc[p] = "failed"
  /\ UNCHANGED countVars
  /\ loc' = [loc EXCEPT ![p] = NoLocals]
  /\ pc' = [pc EXCEPT ![p] = "idle"]
  /\ UNCHANGED loomVars
  /\ UNCHANGED probeVars

\* Loom.checkout, lines 141 and 143: index.reinitialize(newTree).
CheckoutReinitialize(p) ==
  /\ pc[p] = "reinit"
  /\ UNCHANGED countVars
  /\ index' = IndexUpdate(IndexReinitialize(loc[p].newTree), wd)
  /\ indexed' = IndexReinitializePaths(loc[p].newTree)
  /\ pc' = [pc EXCEPT ![p] = "current"]
  /\ UNCHANGED <<wd, sets, branches, current, snapshots, loc>>
  /\ UNCHANGED probeVars

\* Loom.checkout, line 146.
CheckoutSetCurrent(p) ==
  /\ pc[p] = "current"
  /\ UNCHANGED countVars
  /\ current' = loc[p].branchName
  /\ loc' = [loc EXCEPT ![p] = NoLocals]
  /\ pc' = [pc EXCEPT ![p] = "idle"]
  /\ UNCHANGED <<wd, index, indexed, sets, branches, snapshots>>
  /\ UNCHANGED probeVars

\* Loom.merge, line 151: the call is made and updates the index.
MergeUpdate(p, B) ==
  /\ Free(p)
  /\ Call
  /\ Overlap
  /\ Update
  /\ loc' = [loc EXCEPT ![p] = [NoLocals EXCEPT !.branchName = B]]
  /\ pc' = [pc EXCEPT ![p] = "mergeTests"]
  /\ UNCHANGED probeVars

\* Loom.merge with the tests of the sets left out (lines 156-161).
MergeBeginUnguarded(p) ==
  /\ pc[p] = "mergeTests"
  /\ UNCHANGED countVars
  /\ LET B == loc[p].branchName
     IN IF B \notin DOMAIN branches \/ headRaises(Here)
        THEN /\ loc' = [loc EXCEPT ![p] = NoLocals]
             /\ pc' = [pc EXCEPT ![p] = "idle"]
        ELSE /\ loc' = [loc EXCEPT ![p].heads = <<head(Here), branches[B]>>]
             /\ pc' = [pc EXCEPT ![p] = "walk"]
  /\ UNCHANGED loomVars
  /\ UNCHANGED probeVars

\* Loom.merge, lines 153-164, run when the await of line 151 is over: the
\* tests and the two heads.
MergeBegin(p) ==
  /\ pc[p] = "mergeTests"
  /\ UNCHANGED countVars
  /\ LET B == loc[p].branchName
     IN IF preflight(Here, B) # "none"
        THEN /\ loc' = [loc EXCEPT ![p] = NoLocals]  \* the error goes to the caller
             /\ pc' = [pc EXCEPT ![p] = "idle"]
        ELSE /\ loc' = [loc EXCEPT ![p].heads = <<head(Here), branches[B]>>]
             /\ pc' = [pc EXCEPT ![p] = "walk"]
  /\ UNCHANGED loomVars
  /\ UNCHANGED probeVars

\* Loom.merge, lines 169-219.  The walks of lines 169-179 read the store and
\* write nothing; when one of them raises the call ends there, and one of
\* them raises on every history the store can hold (buildSnapshotCIDS).  The
\* lines after them, which no call reaches, are taken in the same step.
MergeWalk(p) ==
  /\ pc[p] = "walk"
  /\ UNCHANGED countVars
  /\ LET originHead == loc[p].heads[1]
         destinationHead == loc[p].heads[2]
         lca == mergeBase(snapshots, originHead, destinationHead)
     IN IF lca.error # "none"
        THEN UNCHANGED loomVars /\ UNCHANGED probeVars  \* the error goes to the caller
        ELSE Become(mergeFinish(Here, originHead, destinationHead, lca.cid,
                                loc[p].branchName))
  /\ loc' = [loc EXCEPT ![p] = NoLocals]
  /\ pc' = [pc EXCEPT ![p] = "idle"]

\* The steps of stage, snapshot, checkout and merge calls, of the user and of
\* the making of branches.
NextCalls ==
  \/ UserWrite
  \/ Stage
  \/ BranchNew
  \/ \E p \in Procs : SnapshotUpdate(p)
  \/ \E p \in Procs : SnapshotTree(p)
  \/ \E p \in Procs : SnapshotParents(p)
  \/ \E p \in Procs : SnapshotPut(p)
  \/ \E p \in Procs : SnapshotHead(p)
  \/ \E p \in Procs, B \in BranchNames : CheckoutUpdate(p, B)
  \/ \E p \in Procs : CheckoutBegin(p)
  \/ \E p \in Procs : CheckoutEntry(p)
  \/ \E p \in Procs : CheckoutRemove(p)
  \/ \E p \in Procs : CheckoutFails(p)
  \/ \E p \in Procs : CheckoutRaise(p)
  \/ \E p \in Procs : CheckoutReinitialize(p)
  \/ \E p \in Procs : CheckoutSetCurrent(p)
  \/ \E p \in Procs, B \in BranchNames : MergeUpdate(p, B)
  \/ \E p \in Procs : MergeBegin(p)
  \/ \E p \in Procs : MergeWalk(p)

SpecCalls == Init /\ [][NextCalls]_vars

\* Every use of the public interface of Loom.
Next == NextCalls \/ SetCurrentBranchName

Spec == Init /\ [][Next]_vars

\* ------------------------------------------------- tree-merge specification
\* mergeTrees applied to every triple of trees over Paths whose links are files
\* or directory objects.
TreeInputs ==
  UNION {[dom -> Contents \cup DirCids] : dom \in SUBSET Paths}

InitMerge ==
  /\ LoomNew
  /\ pO \in TreeInputs /\ pD \in TreeInputs /\ pL \in TreeInputs
  /\ pOut = NotCalled
  /\ Idle

ApplyMergeTrees ==
  /\ ~pOut.called
  /\ pOut' = [called |-> TRUE] @@ mergeTrees(pO, pD, pL)
  /\ UNCHANGED <<pO, pD, pL>>
  /\ UNCHANGED loomVars
  /\ UNCHANGED stepVars
  /\ UNCHANGED countVars

NextMerge == ApplyMergeTrees

SpecMerge == InitMerge /\ [][NextMerge]_vars

\* ------------------------------------------------ terms the claims are stated in
\* The snapshots a head descends from, itself included, along every parent.
RECURSIVE Ancestors(_, _)
Ancestors(snaps, h) ==
  IF h = Undefined THEN {}
  ELSE {h} \cup UNION {Ancestors(snaps, snaps[h].parents[i]) :
                         i \in 1..Len(snaps[h].parents)}

\* a is an ancestor of b; the empty head is an ancestor of every head.
IsAncestor(snaps, a, b) == a = Undefined \/ a \in Ancestors(snaps, b)

\* x is a lowest common ancestor of a and b (the empty head when they share none).
IsLca(snaps, a, b, x) ==
  LET common == Ancestors(snaps, a) \cap Ancestors(snaps, b)
  IN IF common = {} THEN x = Undefined
     ELSE /\ x \in common
          /\ \A y \in common : y # x => x \notin Ancestors(snaps, y)

LowestCommonAncestor(snaps, a, b) ==
  CHOOSE x \in 0..Len(snaps) : IsLca(snaps, a, b, x)

\* One cell of the three-way merge table: the link the merged tree holds
\* under name n (Null: no entry), or the kind of conflict.
Take(link) == [conflict |-> "none", link |-> link]
Clash(kind) == [conflict |-> kind, link |-> Null]

MergeCell(l, o, d, n) ==
  LET inL == n \in DOMAIN l
      inO == n \in DOMAIN o
      inD == n \in DOMAIN d
  IN IF ~inO /\ ~inD THEN Take(Null)
     ELSE IF inO /\ inD
     THEN IF o[n] = d[n] THEN Take(o[n])
          ELSE IF NodeGetType(o[n]) # NodeGetType(d[n]) THEN Clash("TypeConflict")
          ELSE IF ~inL THEN Clash("AddAdd")
          ELSE IF o[n] = l[n] THEN Take(d[n])
          ELSE IF d[n] = l[n] THEN Take(o[n])
          ELSE IF NodeGetType(o[n]) = "file"
          THEN IF merge3(o[n], l[n], d[n]).conflict
               THEN Clash("TextConflict")
               ELSE Take(merge3(o[n], l[n], d[n]).result)
          ELSE IF NodeGetType(l[n]) = "tree"
               THEN Clash("TextConflict")  \* the one child differs on all three sides
               ELSE Clash("AddAdd")        \* the one child has no base
     ELSE IF inO
     THEN IF ~inL THEN Take(o[n])
          ELSE IF o[n] = l[n] THEN Take(Null) ELSE Clash("ModDel")
     ELSE IF ~inL THEN Take(d[n])
          ELSE IF d[n] = l[n] THEN Take(Null) ELSE Clash("ModDel")

MergeNames(o, d, l) == DOMAIN o \cup DOMAIN d \cup DOMAIN l

Conflicts(o, d, l) ==
  {n \in MergeNames(o, d, l) : MergeCell(l, o, d, n).conflict # "none"}

\* The call passes the preflight of checkout and merge.
Preflight(B) ==
  /\ B \in DOMAIN branches
  /\ IndexUnsnapshot(index) = {}
  /\ IndexModified(index) = {}

Dirty == IndexModified(index) \cup IndexUnsnapshot(index) # {}

OriginHead == head(Here)
TreeOf(h) == NodeGetTree(snapshots, h)
BaseTree(B) == TreeOf(LowestCommonAncestor(snapshots, OriginHead, branches[B]))

\* Neither head is an ancestor of the other.
Diverged(B) ==
  /\ ~IsAncestor(snapshots, OriginHead, branches[B])
  /\ ~IsAncestor(snapshots, branches[B], OriginHead)

\* The outcome leaves the working directory, the heads and the current branch alone.
Untouched(r) == r.wd = wd /\ r.branches = branches /\ r.current = current

\* The step is one of the call in slot p.
StepOf(p) == pc'[p] # pc[p] \/ loc'[p] # loc[p]

\* The sets the Index object holds name a path.
DirtySets == sets.modified \cup sets.unsnapshot # {}

\* -------------------------------------------------------------------- C1
\* C1: whenever the index's modified set or unsnapshot set is non-empty,
\* checkout(B) and merge(B) fail, and the working directory, every branch head
\* and the current-branch pointer are the same after the call as before it.
\* Of a call that runs alone: made in a state whose update finds one of the
\* sets non-empty, it fails and leaves the three untouched.  Of a call among
\* others: the step that runs its tests (lines 116-124, 153-161) while the
\* Index object holds a non-empty modified or unsnapshot set ends the call,
\* and writes no file, no index entry, no head and no pointer.
C1_DirtyGuard ==
  /\ [](Dirty =>
         \A B \in BranchNames :
           LET co == checkout(Here, B)
               me == merge(Here, B)
           IN /\ co.err # "none" /\ Untouched(co)
              /\ me.err # "none" /\ Untouched(me))
  /\ [][\A p \in Procs :
          (StepOf(p) /\ pc[p] \in {"tests", "mergeTests"} /\ DirtySets)
            => (pc'[p] = "idle" /\ UNCHANGED loomVars)]_vars

\* A checkout or a merge of another, non-empty branch with a different tree
\* is about to run its tests, the sets of the Index object have a modified
\* path and no unsnapshot one, and the same call made alone in this state is
\* refused for the modified set.
C1_Witness ==
  \E p \in Procs :
    /\ pc[p] \in {"tests", "mergeTests"}
    /\ sets.unsnapshot = {}
    /\ sets.modified # {}
    /\ LET B == loc[p].branchName
       IN /\ B \in DOMAIN branches
          /\ current \in DOMAIN branches
          /\ B # current
          /\ branches[B] # Undefined
          /\ TreeOf(branches[B]) # TreeOf(OriginHead)
          /\ checkout(Here, B).err = "Modified"
          /\ merge(Here, B).err = "Modified"

\* -------------------------------------------------------------------- C2
\* C2: when the two heads have diverged and the three-way merge of their trees
\* has a conflict (text, add/add, modify/delete or type), merge(other) aborts
\* with a conflict report and leaves the working directory, the heads, the
\* current branch, the index and the snapshot store unchanged.
C2_ConflictAborts ==
  \A B \in BranchNames :
    (/\ Preflight(B)
     /\ Diverged(B)
     /\ Conflicts(TreeOf(OriginHead), TreeOf(branches[B]), BaseTree(B)) # {})
    => /\ merge(Here, B).err \in {"Conflict", "NoCommonAncestor"}
       /\ Untouched(merge(Here, B))
       /\ merge(Here, B).index = index
       /\ merge(Here, B).snapshots = snapshots

\* -------------------------------------------------------------------- C3
\* C3: a clean merge of diverged heads creates exactly one snapshot, which
\* becomes the head of the current branch and whose parents are the head of
\* the current branch before the merge and the head of other, in this order.
C3_MergeSnapshot ==
  \A B \in BranchNames :
    (/\ Preflight(B)
     /\ Diverged(B)
     /\ Conflicts(TreeOf(OriginHead), TreeOf(branches[B]), BaseTree(B)) = {})
    => LET r == merge(Here, B)
           new == Len(snapshots) + 1
       IN /\ Len(r.snapshots) = new
          /\ r.branches[current] = new
          /\ r.snapshots[new].parents = <<OriginHead, branches[B]>>

\* -------------------------------------------------------------------- C4
\* C4: merge(other) never changes which branch is current, and never moves
\* the head of a branch other than the current one.
C4_MergeKeepsCurrent ==
  \A B \in BranchNames :
    LET r == merge(Here, B)
    IN /\ r.current = current
       /\ DOMAIN r.branches = DOMAIN branches
       /\ \A n \in DOMAIN branches : n # current => r.branches[n] = branches[n]

\* A merge of another branch with a different, non-empty head that passes the
\* preflight and reaches the merge of the trees.
C4_Witness ==
  \E B \in DOMAIN branches :
    /\ B # current
    /\ Preflight(B)
    /\ OriginHead # Undefined /\ branches[B] # Undefined
    /\ Diverged(B)
    /\ TreeOf(branches[B]) # TreeOf(OriginHead)
    /\ merge(Here, B).err = "MissingObject"

\* -------------------------------------------------------------------- C5
\* C5: with o the current head, d the head of other and l their lowest common
\* ancestor: if l = o and o # d the current head becomes d and the working
\* directory and the index are brought to d's tree; if o = d or l = d nothing
\* changes; in all three cases no snapshot is created.
C5_FastForward ==
  \A B \in BranchNames :
    Preflight(B) =>
      LET o == OriginHead
          d == branches[B]
          r == merge(Here, B)
      IN /\ (IsAncestor(snapshots, o, d) /\ o # d) =>
              /\ r.branches = [branches EXCEPT ![current] = d]
              /\ r.wd = updateWorkingDirectory(wd, TreeOf(o), TreeOf(d))
              /\ r.index = IndexReinitialize(TreeOf(d))
              /\ r.snapshots = snapshots
         /\ IsAncestor(snapshots, d, o) =>
              /\ Untouched(r)
              /\ r.index = index
              /\ r.snapshots = snapshots

\* -------------------------------------------------------------------- C6
\* C6: the base merge computes for the heads of two branches that have
\* snapshots is a common ancestor of both (a head being its own ancestor) and
\* no other common ancestor descends from it.
C6_LcaCorrect ==
  \A B \in DOMAIN branches :
    (OriginHead # Undefined /\ branches[B] # Undefined) =>
      LET base == mergeBase(snapshots, OriginHead, branches[B])
      IN base.error = "none" /\ IsLca(snapshots, OriginHead, branches[B], base.cid)

\* -------------------------------------------------------------------- C7
\* C7: in a clean three-way tree merge an entry absent from the base and
\* present on one side only is in the merged tree, with that side's link.
C7_AdditionsKept ==
  (pOut.called /\ Conflicts(pO, pD, pL) = {}) =>
    \A n \in Paths :
      /\ (n \notin DOMAIN pL /\ n \in DOMAIN pO /\ n \notin DOMAIN pD) =>
           (pOut.error = "none" /\ n \in DOMAIN pOut.tree /\ pOut.tree[n] = pO[n])
      /\ (n \notin DOMAIN pL /\ n \notin DOMAIN pO /\ n \in DOMAIN pD) =>
           (pOut.error = "none" /\ n \in DOMAIN pOut.tree /\ pOut.tree[n] = pD[n])

\* -------------------------------------------------------------------- C8
\* C8: when a merge that has something to merge is clean, a path of the base
\* that one side left unchanged and the other side deleted is absent from the
\* tree of the head after the merge and from the working directory.
C8_DeletionPropagates ==
  \A B \in BranchNames :
    (/\ Preflight(B)
     /\ ~IsAncestor(snapshots, branches[B], OriginHead)
     /\ Conflicts(TreeOf(OriginHead), TreeOf(branches[B]), BaseTree(B)) = {})
    => LET o == TreeOf(OriginHead)
           d == TreeOf(branches[B])
           l == BaseTree(B)
           r == merge(Here, B)
       IN \A p \in DOMAIN l :
            (\/ (p \in DOMAIN o /\ o[p] = l[p] /\ p \notin DOMAIN d)
             \/ (p \in DOMAIN d /\ d[p] = l[p] /\ p \notin DOMAIN o))
            => /\ p \notin DOMAIN NodeGetTree(r.snapshots, r.branches[r.current])
               /\ r.wd[p] = Null

\* -------------------------------------------------------------------- C9
\* C9: when origin and destination hold under one name two different links of
\* different kinds, the tree merge returns flagged conflict.
C9_TypeConflict ==
  (/\ pOut.called
   /\ \E n \in DOMAIN pO \cap DOMAIN pD :
        pO[n] # pD[n] /\ NodeGetType(pO[n]) # NodeGetType(pD[n]))
  => (pOut.error = "none" /\ pOut.flag = "conflict")

\* ------------------------------------------------------------------- C10
\* C10: on trees whose three-way merge is clean and needs no text merge,
\* mergeTrees(o, d, l) and mergeTrees(d, o, l) return the same merged tree.
C10_MergeSymmetric ==
  (pOut.called /\ Conflicts(pO, pD, pL) = {}) =>
    LET swapped == mergeTrees(pD, pO, pL)
    IN /\ pOut.error = "none"
       /\ swapped.error = "none"
       /\ swapped.tree = pOut.tree

\* ------------------------------------------------------------------- C11
\* C11: after a successful snapshot on a current branch whose head was h, one
\* snapshot has been added to the store, the head of the current branch is
\* its CID, and its parents are <<h>> when h is a snapshot and the empty
\* sequence when h is the empty head; no other head moves.
C11_SnapshotParents ==
  LET r == snapshot(Here)
      new == Len(snapshots) + 1
  IN r.err = "none" =>
       /\ r.snapshots = Append(snapshots, r.snapshots[new])
       /\ r.branches = [branches EXCEPT ![current] = new]
       /\ r.snapshots[new].parents =
            IF OriginHead # Undefined THEN <<OriginHead>> ELSE <<>>

\* A successful snapshot on a branch whose head is a snapshot.
C11_Witness ==
  /\ OriginHead # Undefined
  /\ snapshot(Here).err = "none"
  /\ snapshot(Here).snapshots[Len(snapshots) + 1].parents = <<OriginHead>>

\* ------------------------------------------------------------------- C12
\* C12: after a successful checkout(B) the current branch is B, the working
\* directory holds exactly the files of the tree of B's head (no file when
\* B's head is the empty head), and the index holds for each of these files
\* wdir = stage = repo = the file's link and no other entry.
C12_CheckoutResult ==
  \A B \in BranchNames :
    LET r == checkout(Here, B)
    IN r.err = "none" =>
         LET newTree == TreeOf(branches[B])
         IN /\ r.current = B
            /\ \A p \in Paths :
                 r.wd[p] = IF p \in DOMAIN newTree THEN newTree[p] ELSE Null
            /\ r.index = IndexReinitialize(newTree)

\* ------------------------------------------------------------------- C13
\* C13: from a clean state, a checkout(B) that succeeds followed at once by a
\* second checkout(B) leaves the working directory, the index, the current
\* branch and every branch head as the first checkout left them.
C13_CheckoutIdempotent ==
  \A B \in BranchNames :
    LET first == checkout(Here, B)
        second == checkout(first, B)
    IN first.err = "none" =>
         /\ second.wd = first.wd
         /\ second.index = first.index
         /\ second.current = first.current
         /\ second.branches = first.branches

\* ------------------------------------------------------------------- C14
\* C14: checkout(B) and merge(B) with a name B that is not an existing branch
\* fail with the unknown-branch error, and the working directory, every
\* branch head and the current branch are the same after the call as before.
C14_UnknownBranch ==
  \A B \in BranchNames \ DOMAIN branches :
    /\ checkout(Here, B).err = "UnknownBranch" /\ Untouched(checkout(Here, B))
    /\ merge(Here, B).err = "UnknownBranch" /\ Untouched(merge(Here, B))

\* A clean workspace on a branch with a snapshot, where nothing but the
\* missing branch refuses the calls.
C14_Witness ==
  \E B \in BranchNames \ DOMAIN branches :
    /\ OriginHead # Undefined
    /\ IndexUnsnapshot(index) = {} /\ IndexModified(index) = {}
    /\ checkout(Here, B).err = "UnknownBranch"
    /\ merge(Here, B).err = "UnknownBranch"

\* ------------------------------------------------------------------- C15
\* C15: in every reachable state, and after every stage, snapshot, checkout
\* or merge call made there, exactly one existing branch is the current one.
C15_CurrentExists ==
  LET one(st) == Cardinality({n \in DOMAIN st.branches : n = st.current}) = 1
  IN /\ one(Here)
     /\ one(snapshot(Here))
     /\ \A B \in BranchNames : one(checkout(Here, B)) /\ one(merge(Here, B))

\* A second branch exists and a checkout has made it the current one.
C15_Witness ==
  /\ current # "master"
  /\ Cardinality(DOMAIN branches) = 2
  /\ snapshots # <<>>

\* ------------------------------------------------------------------- C16
\* C16: snapshot called when the unsnapshot set of the index is empty fails
\* with the nothing-to-snapshot error, stores no snapshot and moves no head;
\* a snapshot called right after a successful one fails in this way.
C16_NothingToSnapshot ==
  LET first == snapshot(Here)
      second == snapshot(first)
  IN /\ IndexUnsnapshot(index) = {} =>
          /\ first.err = "NothingToSnapshot"
          /\ first.snapshots = snapshots
          /\ first.branches = branches
     /\ first.err = "none" =>
          /\ second.err = "NothingToSnapshot"
          /\ second.snapshots = first.snapshots
          /\ second.branches = first.branches

\* A snapshot that succeeds on a branch with a head, with a further file
\* left unstaged in the working directory.
C16_Witness ==
  /\ OriginHead # Undefined
  /\ snapshot(Here).err = "none"
  /\ IndexModified(snapshot(Here).index) # {}
  /\ snapshot(snapshot(Here)).err = "NothingToSnapshot"

\* ------------------------------------------------------------------- C20
\* C20: when a snapshot succeeds on a branch whose head is a snapshot, a path
\* of the previous head's tree that still has that content in the working
\* directory and in the stage field of the index is in the tree of the new
\* snapshot, with the same link.
C20_UnchangedKept ==
  LET r == snapshot(Here)
      previous == TreeOf(OriginHead)
      next == r.snapshots[Len(snapshots) + 1].tree
  IN (OriginHead # Undefined /\ r.err = "none") =>
       \A p \in DOMAIN previous :
         (wd[p] = previous[p] /\ index[p].stage = previous[p])
         => (p \in DOMAIN next /\ next[p] = previous[p])

\* ------------------------------------------------------------------- C19
\* C19: the ancestor walk from the head of every branch that has a snapshot
\* returns without an error, visits no more snapshots than the store holds
\* and ends its result with the empty head; for two heads whose histories
\* share no snapshot the base merge computes is the empty head.
C19_WalkTerminates ==
  \A n \in DOMAIN branches :
    branches[n] # Undefined =>
      LET walk == buildSnapshotCIDS(snapshots, NodeGet(snapshots, branches[n]))
          base == mergeBase(snapshots, OriginHead, branches[n])
      IN /\ walk.error = "none"
         /\ walk.cids # <<>>
         /\ walk.cids[Len(walk.cids)] = Undefined
         /\ Len(walk.cids) <= Len(snapshots) + 1
         /\ (/\ OriginHead # Undefined
             /\ Ancestors(snapshots, OriginHead)
                  \cap Ancestors(snapshots, branches[n]) = {})
            => (base.error = "none" /\ base.cid = Undefined)

\* ------------------------------------------------------------------- C17
\* C17: the calls made on one workspace do not interleave, so no
\* head update overwrites another: whenever no call is under way, every
\* snapshot object of the store is the head of a branch or an ancestor of one.
C17_NoLostSnapshot ==
  (\A p \in Procs : pc[p] = "idle") =>
    \A c \in 1..Len(snapshots) :
      \E n \in DOMAIN branches :
        \E k \in Ancestors(snapshots, branches[n]) : snapshots[k] = snapshots[c]

\* ------------------------------------------------------------------- C18
\* C18: a step of a checkout that updates the working directory, the failing
\* one included, changes neither the current branch nor the stage and repo
\* fields of the index; a checkout reinitializes the index only when every
\* entry of the new tree has been walked and the files left of the base tree
\* removed (or the new head is the empty head, which has no tree to walk);
\* and a step of a call changes the current branch only as the last step of a
\* checkout, after that reinitialization, to the branch checked out.
Tracked(idx) == [f \in Paths |-> <<idx[f].stage, idx[f].repo>>]

C18_CheckoutOrder ==
  [][\A p \in Procs :
       StepOf(p) =>
         /\ pc[p] \in {"update", "failed"} =>
              (current' = current /\ Tracked(index') = Tracked(index))
         /\ (pc'[p] = "reinit" /\ pc[p] # "reinit") =>
              \/ /\ pc[p] = "update"
                 /\ loc'[p].todo = <<>> /\ loc'[p].baseTree = EmptyTree
              \/ pc[p] = "tests" /\ loc'[p].newTree = EmptyTree
         /\ (pc'[p] = "current" /\ pc[p] # "current") =>
              /\ pc[p] = "reinit"
              /\ Tracked(index') = Tracked(IndexReinitialize(loc[p].newTree))
         /\ current' # current =>
              /\ pc[p] = "current"
              /\ current' = loc[p].branchName]_vars

\* A checkout has failed after it had written a file of the new tree and
\* before it reached the next entry: the index has not followed the file, and
\* the previous branch is still the current one.
C18_Witness ==
  \E p \in Procs :
    /\ pc[p] = "failed"
    /\ loc[p].todo # <<>>
    /\ loc[p].branchName # current
    /\ OriginHead # Undefined
    /\ \E f \in DOMAIN loc[p].newTree :
         /\ \A i \in 1..Len(loc[p].todo) : loc[p].todo[i] # f
         /\ wd[f] = loc[p].newTree[f]
         /\ index[f].repo # wd[f]
====
